---- MODULE Spec2Model ----
(***************************************************************************)
(* Caption generation of spacecat-sage: one CaptionProcessor instance      *)
(* (src-pyloid/caption_processor.py), its QThread worker (run /            *)
(* _generate_caption), a caller thread running generate_batch_captions,    *)
(* and the UI thread that issues generate_caption_async and                *)
(* cancel_generation (src-pyloid/main.py).                                 *)
(*                                                                         *)
(* A ModelClient call is one invocation of                                 *)
(* _generate_caption_with_openai_sdk: it reads the image, creates the      *)
(* chat-completion task, awaits it and turns every outcome into a JSON     *)
(* result.  A caption is the sequence of its characters.                   *)
(***************************************************************************)
EXTENDS Integers, Sequences, FiniteSets, TLC

VARIABLES
    session_dir,      \* self.session_dir
    image_name,       \* self._image_name
    model_type,       \* self._model_type
    settings,         \* self._settings
    event_loop,       \* self._event_loop: None, or the thread whose loop it is
    current_task,     \* self._current_task: None, or the thread whose task it is
    task,             \* per thread: state of the asyncio task it created last
    pc,               \* per thread: position in the code
    retry_count,      \* per thread: local retry_count of the engine
    last_error,       \* per thread: local last_error of the engine
    image_path,       \* per thread: the image the local image_path points to
    captions,         \* rows of the captions table
    image_names,      \* batch: the image_names argument
    i,                \* batch: number of items whose iteration has begun
    results,          \* batch: the local results list
    progress_log,     \* everything emitted on the progress signal
    result_log,       \* everything emitted on the result signal
    outcome,          \* per thread: value returned by the engine invocation
    calls,            \* per thread: ModelClient calls of the invocation
    writes,           \* per thread: committed store writes of the invocation
    only_raise,       \* per thread: every call so far ended in a raised error
    cancel_seen,      \* per thread: cancel_generation ran during the invocation
    cancel_hit,       \* per thread: an await of the invocation raised CancelledError
    call_after_cancel,\* per thread: a call was issued after cancel_generation
    stop_at,          \* batch: index of the item after whose progress event
                      \*        cancel_generation first ran between items
    conn,             \* per thread: the engine's local conn: "none", or "open"
                      \*        when it is bound to a connection not closed
    viewed,           \* rows of the viewed_images table
    last_write,       \* the most recent upsert into the captions table
    session_files,    \* names of the regular files in the session directory
    queue,            \* FileProcessor.queue
    _stop_event,      \* FileProcessor._stop_event is set
    current_progress, \* FileProcessor.current_progress
    processed_files,  \* FileProcessor.processed_files
    files_processed,  \* FileProcessor.run: local files_processed
    total_files,      \* FileProcessor.run: local total_files
    ingest_pc,        \* FileProcessor thread: position in the code
    submits,          \* number of process_files calls
    deliveries,       \* polls that answered `complete` since the last submit
    copied,           \* source paths copied by the current ingestion run
    mishap,           \* what failed in the last loop iteration of ingestion
    prompts,          \* settings['prompts']: the caption configuration
    final_prompt,     \* what _construct_prompt returned for it
    handlers,         \* on_result closures connected to the result signal
    events,           \* handleCaptionResult events of the last emitted result
    probe,            \* a caption given to _is_rejection_response
    verdict,          \* what it answered: "none" before it is asked
    script,           \* what the ModelClient and the store will do, call by call
    single_result,    \* _generate_caption run against the script
    batch_result,     \* _generate_caption_for_batch run against the script
    reqs,             \* number of generate_caption_async calls
    runs,             \* number of worker runs that were started
    batches           \* number of generate_batch_captions calls

self_vars  == <<session_dir, image_name, model_type, settings, event_loop,
                current_task>>
local_vars == <<task, pc, retry_count, last_error, image_path>>
batch_vars == <<image_names, i, results>>
log_vars   == <<progress_log, result_log>>
ghost_vars == <<outcome, calls, writes, only_raise, cancel_seen, cancel_hit,
                call_after_cancel, stop_at, reqs, runs, batches>>
api_vars   == <<viewed, last_write>>
ingest_ghosts == <<deliveries, copied, mishap>>
ingest_vars == <<queue, _stop_event, current_progress, processed_files,
                 files_processed, total_files, ingest_pc, submits,
                 session_files, ingest_ghosts>>
prompt_vars == <<prompts, final_prompt>>
bridge_vars == <<handlers, events>>
pure_vars == <<probe, verdict, script, single_result, batch_result>>
vars == <<self_vars, local_vars, batch_vars, captions, log_vars, ghost_vars,
          conn, api_vars, ingest_vars, prompt_vars, bridge_vars, pure_vars>>

----------------------------------------------------------------------------
(* Bounds of the model *)

MaxRequests == 2     \* generate_caption_async calls in one behaviour
MaxCalls == 4        \* the call counter saturates here
MaxBatches == 1      \* generate_batch_captions calls in one behaviour

(* Program constants *)

max_retries == 3

----------------------------------------------------------------------------
(* Values *)

None == "None"
Threads == {"worker", "batch"}
Absent == "absent"

Min(a, b) == IF a < b THEN a ELSE b

Truthy(x) == x \notin {None, Absent, ""}

Get(x, default) == IF x = Absent THEN default ELSE x

\* the files of the session directory when the processor is constructed
SessionFiles == {"a.jpg", "b.jpg", "c.jpg"}

GoodSettings ==
    [present |-> TRUE, openai_model |-> Absent, openai_apiKey |-> "sk",
     joy_model |-> Absent, joy_apiKey |-> "key", joy_baseUrl |-> "http://vllm"]

NoKeySettings ==
    [present |-> TRUE, openai_model |-> Absent, openai_apiKey |-> Absent,
     joy_model |-> Absent, joy_apiKey |-> "key", joy_baseUrl |-> Absent]

\* settings whose openai model name is the empty string
NoModelSettings ==
    [present |-> TRUE, openai_model |-> "", openai_apiKey |-> "sk",
     joy_model |-> Absent, joy_apiKey |-> "key", joy_baseUrl |-> "http://vllm"]

NoSettings ==
    [present |-> FALSE, openai_model |-> Absent, openai_apiKey |-> Absent,
     joy_model |-> Absent, joy_apiKey |-> Absent, joy_baseUrl |-> Absent]

\* the arguments the UI thread passes to generate_caption_async
Requests ==
    { [image |-> "a.jpg", model_type |-> "openai", settings |-> GoodSettings],
      [image |-> "b.jpg", model_type |-> "vllm", settings |-> GoodSettings],
      [image |-> "gone.jpg", model_type |-> "openai", settings |-> GoodSettings],
      [image |-> "a.jpg", model_type |-> "vllm", settings |-> NoKeySettings],
      [image |-> "b.jpg", model_type |-> "openai", settings |-> NoKeySettings],
      [image |-> "", model_type |-> "openai", settings |-> NoModelSettings],
      [image |-> "c.jpg", model_type |-> "openai", settings |-> NoModelSettings] }

\* the arguments a caller passes to generate_batch_captions
BatchRequests ==
    { [names |-> <<"b.jpg">>, model_type |-> "openai", settings |-> GoodSettings],
      [names |-> <<"a.jpg", "b.jpg", "c.jpg">>, model_type |-> "openai",
       settings |-> GoodSettings],
      [names |-> <<"b.jpg", "gone.jpg", "a.jpg">>, model_type |-> "vllm",
       settings |-> GoodSettings],
      [names |-> <<"a.jpg", "">>, model_type |-> "openai", settings |-> NoSettings],
      [names |-> <<"c.jpg">>, model_type |-> "openai", settings |-> NoKeySettings] }

\* self.api_key: set_api_key has no caller, the field keeps its initial None
api_key == None

NoOutcome ==
    [status |-> "pending", error |-> "", detail |-> "", image_name |-> "",
     caption |-> <<>>]

\* json.dumps({"error": msg, "image_name": name}): no "status" key
ErrorResult(msg, name) ==
    [status |-> "absent", error |-> msg, detail |-> "", image_name |-> name,
     caption |-> <<>>]

\* json.dumps({"error": msg, "image_name": name, "status": "error"})
\* detail stands for the text appended to the message (last_error)
StatusError(msg, detail, name) ==
    [status |-> "error", error |-> msg, detail |-> detail, image_name |-> name,
     caption |-> <<>>]

\* settings without a 'prompts' entry: every prompts.get falls to its default
DefaultPrompts ==
    [captionType |-> "Descriptive", captionLength |-> "medium-length",
     customPrompt |-> <<>>, customName |-> "", extraOptions |-> <<>>]

\* an engine has not been run against the script
NoResult ==
    [ran |-> FALSE, done |-> FALSE, outcome |-> NoOutcome, calls |-> 0,
     writes |-> <<>>]

\* no upsert has been made yet
NoWrite == [image_name |-> "", caption |-> <<>>, made |-> FALSE]

SuccessResult(caption, name) ==
    [status |-> "success", error |-> "", detail |-> "", image_name |-> name,
     caption |-> caption]

----------------------------------------------------------------------------
(* Pure functions *)

\* sub occurs in s as a contiguous run: `sub in s` of two strings
Contains(s, sub) ==
    \E k \in 0..(Len(s) - Len(sub)) :
        \A j \in 1..Len(sub) : s[k + j] = sub[j]

\* A text is the sequence of its characters.  (Where only the identity of a
\* text matters, as for the description the model gives of an image, it is
\* written as a few whole words.)

\* the letters str.lower() changes, and what it makes of them
UpperCase ==
    <<"A", "B", "C", "D", "E", "F", "G", "H", "I", "J", "K", "L", "M", "N",
      "O", "P", "Q", "R", "S", "T", "U", "V", "W", "X", "Y", "Z">>
LowerCase ==
    <<"a", "b", "c", "d", "e", "f", "g", "h", "i", "j", "k", "l", "m", "n",
      "o", "p", "q", "r", "s", "t", "u", "v", "w", "x", "y", "z">>

\* str.lower() that changes nothing
lowerKeep(c) == c

\* str.lower() on one character
lower(c) ==
    IF \E k \in 1..Len(UpperCase) : UpperCase[k] = c
    THEN LowerCase[CHOOSE k \in 1..Len(UpperCase) : UpperCase[k] = c]
    ELSE c

\* caption.lower()
Lowered(caption) == [k \in 1..Len(caption) |-> lower(caption[k])]

\* "sorry", "i apologize", "cannot", "unable to", "failed to", "could not",
\* "error", "invalid", "not able to"
rejection_indicators ==
    { <<"s", "o", "r", "r", "y">>,
      <<"i", " ", "a", "p", "o", "l", "o", "g", "i", "z", "e">>,
      <<"c", "a", "n", "n", "o", "t">>,
      <<"u", "n", "a", "b", "l", "e", " ", "t", "o">>,
      <<"f", "a", "i", "l", "e", "d", " ", "t", "o">>,
      <<"c", "o", "u", "l", "d", " ", "n", "o", "t">>,
      <<"e", "r", "r", "o", "r">>,
      <<"i", "n", "v", "a", "l", "i", "d">>,
      <<"n", "o", "t", " ", "a", "b", "l", "e", " ", "t", "o">> }

\* a classifier that takes every text for a caption
_is_rejection_responseNever(caption) == FALSE

\* if not caption: return True
\* return any(indicator in caption.lower() for indicator in rejection_indicators)
_is_rejection_response(caption) ==
    IF caption = <<>> THEN TRUE
    ELSE LET lowered == Lowered(caption)
         IN  \E indicator \in rejection_indicators :
                 Contains(lowered, indicator)

\* what the model answers for an image when it describes it
Describe(img) == <<"photo", "of", img>>

\* "I am sorry"
Refusal == <<"I", " ", "a", "m", " ", "s", "o", "r", "r", "y">>

\* what awaiting the chat-completion task can yield.  "raise" is every
\* exception of the SDK: a transport failure, an HTTP error status, and a
\* response body the SDK cannot parse
Responses(img) ==
    { [kind |-> "content", text |-> Describe(img)],
      [kind |-> "content", text |-> Refusal],
      [kind |-> "empty", text |-> <<>>],
      [kind |-> "raise", text |-> <<>>] }

Cancelled == [kind |-> "cancelled", text |-> <<>>]

\* the JSON result of _generate_caption_with_openai_sdk for a task outcome
SdkResult(r) ==
    IF r.kind = "content" /\ r.text # <<>>
    THEN IF _is_rejection_response(r.text)
         THEN [has_caption |-> FALSE, caption |-> <<>>,
               error |-> "Model politely declined the image"]
         ELSE [has_caption |-> TRUE, caption |-> r.text, error |-> ""]
    ELSE IF r.kind \in {"content", "empty"}
    THEN [has_caption |-> FALSE, caption |-> <<>>, error |-> "No caption generated"]
    ELSE IF r.kind = "cancelled"
    THEN [has_caption |-> FALSE, caption |-> <<>>,
          error |-> "Caption generation cancelled"]
    ELSE [has_caption |-> FALSE, caption |-> <<>>, error |-> "str(e)"]

\* Upsert as a plain INSERT into a table without primary key
UpsertKeepOld(rows, name, caption) ==
    rows \cup {[image_name |-> name, caption |-> caption]}

\* INSERT OR REPLACE INTO captions (image_name, caption, updated_at)
Upsert(rows, name, caption) ==
    {r \in rows : r.image_name # name}
        \cup {[image_name |-> name, caption |-> caption]}

\* Validate without the base URL check of the vLLM branch
ValidateNoBaseUrl(name) ==
    IF ~Truthy(session_dir) THEN ErrorResult("No active session", name)
    ELSE IF ~Truthy(name) THEN ErrorResult("No image name provided", name)
    ELSE IF name \notin session_files THEN ErrorResult("Image file not found", name)
    ELSE IF ~settings.present THEN ErrorResult("No settings provided", name)
    ELSE LET openai == model_type = "openai"
             model == IF openai THEN Get(settings.openai_model, "gpt-4o")
                      ELSE Get(settings.joy_model,
                               "llama-joycaption-alpha-two-hf-llava")
             key == IF openai
                    THEN (IF Truthy(settings.openai_apiKey)
                          THEN settings.openai_apiKey ELSE api_key)
                    ELSE settings.joy_apiKey
         IN  IF ~Truthy(key) THEN ErrorResult("API key not set", name)
             ELSE IF ~Truthy(model) THEN ErrorResult("Model not specified", name)
             ELSE NoOutcome

\* the checks of the engine before its retry loop; NoOutcome when all pass
Validate(name) ==
    IF ~Truthy(session_dir) THEN ErrorResult("No active session", name)
    ELSE IF ~Truthy(name) THEN ErrorResult("No image name provided", name)
    ELSE IF name \notin session_files THEN ErrorResult("Image file not found", name)
    ELSE IF ~settings.present THEN ErrorResult("No settings provided", name)
    ELSE LET openai == model_type = "openai"
             model == IF openai THEN Get(settings.openai_model, "gpt-4o")
                      ELSE Get(settings.joy_model,
                               "llama-joycaption-alpha-two-hf-llava")
             key == IF openai
                    THEN (IF Truthy(settings.openai_apiKey)
                          THEN settings.openai_apiKey ELSE api_key)
                    ELSE settings.joy_apiKey
         IN  IF ~openai /\ ~Truthy(settings.joy_baseUrl)
             THEN ErrorResult("vLLM base URL not set", name)
             ELSE IF ~Truthy(key) THEN ErrorResult("API key not set", name)
             ELSE IF ~Truthy(model) THEN ErrorResult("Model not specified", name)
             ELSE NoOutcome

----------------------------------------------------------------------------
(* The prompt: CaptionProcessor._construct_prompt *)

\* A prompt is the sequence of its words and punctuation marks; a caption
\* length and a custom name are one token each.

\* the captionLength values of the frontend, and others a request can carry
CaptionLengths == {"any", "short", "medium-length", "long", "42", "7", "4k", ""}

\* str.isdigit() that is never true
isdigitNever(s) == FALSE

\* str.isdigit(): the string is not empty and all its characters are digits
isdigit(s) == s \in {"42", "7"}

CaptionTypes ==
    {"Descriptive", "Descriptive (Informal)", "Training Prompt",
     "Stable Diffusion", "MidJourney", "Booru tag list", "Booru-like tag list",
     "Art Critic", "Product Listing", "Social Media Post", "Custom/VQA",
     "Haiku"}

CustomPrompts == {<<>>, <<"What", "breed", "is", "this", "?">>}
CustomNames == {"", "Ada"}
ExtraOptionLists ==
    { <<>>,
      << <<"Mention", "{name}">> >>,
      << <<"No", "watermarks">>, <<"Call", "{name}", "{name}", "twice">> >>,
      << <<"Keep", "it", "PG">>, <<"No", "watermarks">> >> }

\* the values of settings['prompts']
PromptConfigs ==
    [captionType : CaptionTypes, captionLength : CaptionLengths,
     customPrompt : CustomPrompts, customName : CustomNames,
     extraOptions : ExtraOptionLists]

ForThisImage == <<"for", "this", "image">>

\* the two sentences most caption types share: with a word count the count
\* follows the sentence, else the length precedes the noun
Sentence(noun, tone, caption_length) ==
    IF isdigit(caption_length)
    THEN <<"Write", "a">> \o noun \o ForThisImage \o tone
             \o <<"within", caption_length, "words", ".">>
    ELSE <<"Write", "a", caption_length>> \o noun \o ForThisImage \o tone
             \o <<".">>

ArtCritic ==
    <<"Analyze", "this", "image", "like", "an", "art", "critic", "would",
      "with", "information", "about", "its", "composition", ",", "style", ",",
      "symbolism", ",", "the", "use", "of", "color", ",", "light", ",", "any",
      "artistic", "movement", "it", "might", "belong", "to", ",", "etc", ".">>

AsProductListing ==
    <<"as", "though", "it", "were", "a", "product", "listing", ".">>

AsSocialMediaPost ==
    <<"as", "if", "it", "were", "being", "used", "for", "a", "social",
      "media", "post", ".">>

\* lines 67-125: the sentence for the caption type and length
BasePrompt(prompts_) ==
    LET caption_type == prompts_.captionType
        caption_length == prompts_.captionLength
        is_word_count == isdigit(caption_length)
    IN  IF caption_type = "Custom/VQA"
        THEN (IF prompts_.customPrompt # <<>> THEN prompts_.customPrompt
              ELSE <<"Write", "a", "descriptive", "caption">> \o ForThisImage
                       \o <<".">>)
        ELSE IF caption_type = "Descriptive"
        THEN Sentence(<<"descriptive", "caption">>,
                      <<"in", "a", "formal", "tone">>, caption_length)
        ELSE IF caption_type = "Descriptive (Informal)"
        THEN Sentence(<<"descriptive", "caption">>,
                      <<"in", "a", "casual", "tone">>, caption_length)
        ELSE IF caption_type \in {"Training Prompt", "Stable Diffusion"}
        THEN Sentence(<<"stable", "diffusion", "prompt">>, <<>>, caption_length)
        ELSE IF caption_type = "MidJourney"
        THEN Sentence(<<"MidJourney", "prompt">>, <<>>, caption_length)
        ELSE IF caption_type = "Booru tag list"
        THEN Sentence(<<"list", "of", "Booru", "tags">>, <<>>, caption_length)
        ELSE IF caption_type = "Booru-like tag list"
        THEN Sentence(<<"list", "of", "Booru-like", "tags">>, <<>>,
                      caption_length)
        ELSE IF caption_type = "Art Critic"
        THEN (IF is_word_count
              THEN ArtCritic
                       \o <<"Keep", "it", "within", caption_length, "words", ".">>
              ELSE ArtCritic \o <<"Keep", "it", caption_length, ".">>)
        ELSE IF caption_type = "Product Listing"
        THEN (IF is_word_count
              THEN <<"Write", "a", "caption">> \o ForThisImage
                       \o AsProductListing
                       \o <<"Keep", "it", "under", caption_length, "words", ".">>
              ELSE <<"Write", "a", caption_length, "caption">> \o ForThisImage
                       \o AsProductListing)
        ELSE IF caption_type = "Social Media Post"
        THEN (IF is_word_count
              THEN <<"Write", "a", "caption">> \o ForThisImage
                       \o AsSocialMediaPost
                       \o <<"Limit", "the", "caption", "to", caption_length,
                            "words", ".">>
              ELSE <<"Write", "a", caption_length, "caption">> \o ForThisImage
                       \o AsSocialMediaPost)
        ELSE Sentence(<<"descriptive", "caption">>,
                      <<"in", "a", "formal", "tone">>, caption_length)

RECURSIVE replace(_, _)
\* option.replace('{name}', custom_name): every occurrence
replace(option, custom_name) ==
    IF option = <<>> THEN <<>>
    ELSE (IF Head(option) = "{name}" THEN <<custom_name>> ELSE <<Head(option)>>)
             \o replace(Tail(option), custom_name)

\* a bullet that always inserts the option as it is
BulletVerbatim(option, custom_name) == <<"-">> \o option

\* f"- {option.replace('{name}', custom_name)
\*      if custom_name and '{name}' in option else option}"
Bullet(option, custom_name) ==
    <<"-">> \o (IF Truthy(custom_name)
                   /\ \E k \in 1..Len(option) : option[k] = "{name}"
                THEN replace(option, custom_name) ELSE option)

RECURSIVE Bullets(_, _)
\* "\n".join(... for option in extra_options)
Bullets(extra_options, custom_name) ==
    IF extra_options = <<>> THEN <<>>
    ELSE Bullet(Head(extra_options), custom_name)
             \o (IF Len(extra_options) > 1
                 THEN <<"\n">> \o Bullets(Tail(extra_options), custom_name)
                 ELSE <<>>)

\* "\n\nAdditional requirements:\n"
RequirementsHeader == <<"\n\n", "Additional", "requirements:", "\n">>

\* _construct_prompt(settings) for settings['prompts'] = prompts_
_construct_prompt(prompts_) ==
    BasePrompt(prompts_)
        \o (IF prompts_.extraOptions # <<>>
            THEN RequirementsHeader
                     \o Bullets(prompts_.extraOptions, prompts_.customName)
            ELSE <<>>)

\* the prompt local of _generate_caption after its first checks for the image
\* name: line 150 is reached when none of the returns of lines 136-147 is
\* taken
PromptFor(name) ==
    IF /\ Truthy(session_dir)
       /\ Truthy(name)
       /\ name \in session_files
       /\ settings.present
    THEN _construct_prompt(prompts) ELSE final_prompt

----------------------------------------------------------------------------
(* Initial state: a constructed CaptionProcessor, nothing running *)

\* no request has been made
InitRequest ==
    /\ image_name = None
    /\ model_type = None
    /\ settings = NoSettings

InitRest ==
    /\ session_dir \in {None, "/session"}
    /\ event_loop = None
    /\ current_task = None
    /\ task = [t \in Threads |-> "none"]
    /\ pc = [t \in Threads |-> "idle"]
    /\ retry_count = [t \in Threads |-> 0]
    /\ last_error = [t \in Threads |-> None]
    /\ image_path = [t \in Threads |-> None]
    /\ captions = {}
    /\ image_names = <<>>
    /\ i = 0
    /\ results = <<>>
    /\ progress_log = <<>>
    /\ result_log = <<>>
    /\ outcome = [t \in Threads |-> NoOutcome]
    /\ calls = [t \in Threads |-> 0]
    /\ writes = [t \in Threads |-> 0]
    /\ only_raise = [t \in Threads |-> TRUE]
    /\ cancel_seen = [t \in Threads |-> FALSE]
    /\ cancel_hit = [t \in Threads |-> FALSE]
    /\ call_after_cancel = [t \in Threads |-> FALSE]
    /\ stop_at = 0
    /\ reqs = 0
    /\ runs = 0
    /\ batches = 0
    /\ conn = [t \in Threads |-> "none"]
    /\ viewed = {}
    /\ last_write = NoWrite
    /\ session_files = SessionFiles
    /\ queue = <<>>
    /\ _stop_event = FALSE
    /\ current_progress = 0
    /\ processed_files = <<>>
    /\ files_processed = 0
    /\ total_files = 0
    /\ ingest_pc = "idle"
    /\ submits = 0
    /\ deliveries = 0
    /\ copied = <<>>
    /\ mishap = "none"
    /\ handlers = 0
    /\ events = 0

InitCore == InitRequest /\ InitRest

\* the classifier and the two engines have not been tried on anything
InitPure ==
    /\ probe = <<>>
    /\ verdict = "none"
    /\ script = <<>>
    /\ single_result = NoResult
    /\ batch_result = NoResult

\* no prompt has been built (<<>>: a built prompt is never empty); the caption
\* configuration has its defaults
Init ==
    /\ InitCore
    /\ prompts = DefaultPrompts
    /\ final_prompt = <<>>
    /\ InitPure

\* the same with any caption configuration
PromptInit ==
    /\ InitCore
    /\ prompts \in PromptConfigs
    /\ final_prompt = <<>>
    /\ InitPure

----------------------------------------------------------------------------
(* The engine: _generate_caption (worker) and _generate_caption_for_batch *)

\* the identifier the engine writes and reports under: the worker reads
\* self._image_name each time, the batch engine its image_name parameter
NameNow(t) == IF t = "worker" THEN image_name ELSE image_names[i]

\* Attempt with a write that raised still leaving its row in the table
AttemptNoRollback(res, db_ok, rc, le) ==
    IF res.has_caption /\ ~_is_rejection_response(res.caption)
    THEN IF db_ok
         THEN [next |-> "success", save |-> TRUE, retry_count |-> rc,
               last_error |-> le]
         ELSE [next |-> IF rc + 1 >= max_retries THEN "failed" ELSE "sleep",
               save |-> TRUE, retry_count |-> rc + 1,
               last_error |-> "sqlite3 error"]
    ELSE [next |-> IF rc < max_retries THEN "call" ELSE "failed",
          save |-> FALSE, retry_count |-> rc, last_error |-> le]

\* Attempt with a raising write retried at once, without the sleep
AttemptNoSleep(res, db_ok, rc, le) ==
    IF res.has_caption /\ ~_is_rejection_response(res.caption)
    THEN IF db_ok
         THEN [next |-> "success", save |-> TRUE, retry_count |-> rc,
               last_error |-> le]
         ELSE [next |-> IF rc + 1 >= max_retries THEN "failed" ELSE "call",
               save |-> FALSE, retry_count |-> rc + 1,
               last_error |-> "sqlite3 error"]
    ELSE [next |-> IF rc < max_retries THEN "call" ELSE "failed",
          save |-> FALSE, retry_count |-> rc, last_error |-> le]

\* One pass of the body of the retry loop on the result res of the call, the
\* store write (if one is made) succeeding iff db_ok, with retry_count rc and
\* last_error le.  save: a row is committed.  next: where the engine goes.
\*   'caption' in result and not a rejection: write, then return success; a
\*   raising write lands in `except Exception`: count it, break at the ceiling,
\*   else sleep.  Any other result falls through to the loop head with
\*   retry_count unchanged.
\* Every result is a json.dumps of the wrapper, so json.loads cannot raise
\* and the JSONDecodeError handler (lines 206-213) has no behaviour to model;
\* likewise the batch loop's `except asyncio.CancelledError` (line 353): the
\* wrapper has already turned CancelledError into an error result.
Attempt(res, db_ok, rc, le) ==
    IF res.has_caption /\ ~_is_rejection_response(res.caption)
    THEN IF db_ok
         THEN [next |-> "success", save |-> TRUE, retry_count |-> rc,
               last_error |-> le]
         ELSE [next |-> IF rc + 1 >= max_retries THEN "failed" ELSE "sleep",
               save |-> FALSE, retry_count |-> rc + 1,
               last_error |-> "sqlite3 error"]
    ELSE [next |-> IF rc < max_retries THEN "call" ELSE "failed",
          save |-> FALSE, retry_count |-> rc, last_error |-> le]

\* how the store write of a pass can go: it commits, sqlite3.connect raises,
\* or execute / commit raises on the connection that was opened
StoreWrites == {"ok", "connect raises", "execute raises"}

\* the engine's local conn after a pass.  `with sqlite3.connect(db_path) as
\* conn` commits or rolls back on exit and does not close: conn stays bound to
\* the open connection until it is bound again or the coroutine's frame is
\* released, which happens when the engine returns.
ConnAfter(c, res, db, next) ==
    IF next \in {"success", "failed"} THEN "none"
    ELSE IF res.has_caption /\ ~_is_rejection_response(res.caption)
            /\ db # "connect raises"
    THEN "open"
    ELSE c

\* the value the engine returns when a pass ends the invocation
Returned(a, res, name) ==
    IF a.next = "success" THEN SuccessResult(res.caption, name)
    ELSE IF a.next = "failed"
    THEN StatusError("Failed after 3 attempts", a.last_error, name)
    ELSE NoOutcome

FailedMessage(name) ==
    [kind |-> "failed", current |-> 0, total |-> 0, processing |-> name]

\* the value of the per-invocation bookkeeping when an invocation begins
BeginInvocation(t) ==
    /\ calls' = [calls EXCEPT ![t] = 0]
    /\ writes' = [writes EXCEPT ![t] = 0]
    /\ only_raise' = [only_raise EXCEPT ![t] = TRUE]
    /\ cancel_seen' = [cancel_seen EXCEPT ![t] = FALSE]
    /\ cancel_hit' = [cancel_hit EXCEPT ![t] = FALSE]
    /\ call_after_cancel' = [call_after_cancel EXCEPT ![t] = FALSE]

\* _generate_caption_with_openai_sdk up to the await: read the image (an
\* unreadable or empty file becomes an error result at once, and the loop
\* comes back here), else create the task and store it in _current_task
CallModel(t) ==
    /\ pc[t] = "call"
    /\ calls' = [calls EXCEPT ![t] = Min(@ + 1, MaxCalls)]
    /\ call_after_cancel' = [call_after_cancel EXCEPT ![t] = @ \/ cancel_seen[t]]
    /\ \E readable \in BOOLEAN :
          IF readable
          THEN /\ task' = [task EXCEPT ![t] = "pending"]
               /\ current_task' = t
               /\ pc' = [pc EXCEPT ![t] = "inflight"]
               /\ UNCHANGED only_raise
          ELSE /\ only_raise' = [only_raise EXCEPT ![t] = FALSE]
               /\ UNCHANGED <<task, current_task, pc>>
    /\ UNCHANGED <<session_dir, image_name, model_type, settings, event_loop,
                   retry_count, last_error, image_path, batch_vars, captions,
                   log_vars, outcome, writes, cancel_seen, cancel_hit, stop_at,
                   reqs, runs, batches>>
    /\ UNCHANGED <<conn, api_vars, ingest_vars>>
    /\ UNCHANGED prompt_vars
    /\ UNCHANGED bridge_vars
    /\ UNCHANGED pure_vars

\* the await returns (a response, a raised error, or CancelledError), the SDK
\* wrapper turns it into its JSON result and the loop body runs on it.
\* cancel_generation calls Task.cancel() from the UI thread on a task of
\* another thread's loop, which asyncio does not synchronise: the await may
\* raise CancelledError or still deliver what the endpoint answered.
Respond(t) ==
    /\ pc[t] = "inflight"
    /\ \E r \in (IF task[t] = "cancelled"
                 THEN {Cancelled} \cup Responses(image_path[t])
                 ELSE Responses(image_path[t])),
          db \in StoreWrites :
          \E res \in {SdkResult(r)} :
          \E a \in {Attempt(res, db = "ok", retry_count[t], last_error[t])} :
          \E out \in {Returned(a, res, NameNow(t))} :
              /\ task' = [task EXCEPT ![t] = "done"]
              /\ conn' = [conn EXCEPT ![t] = ConnAfter(@, res, db, a.next)]
              /\ last_write' = IF a.save
                               THEN [image_name |-> NameNow(t),
                                     caption |-> res.caption, made |-> TRUE]
                               ELSE last_write
              /\ only_raise' = [only_raise EXCEPT ![t] = @ /\ r.kind = "raise"]
              /\ cancel_hit' = [cancel_hit EXCEPT ![t] = @ \/ r.kind = "cancelled"]
              /\ retry_count' = [retry_count EXCEPT ![t] = a.retry_count]
              /\ last_error' = [last_error EXCEPT ![t] = a.last_error]
              /\ captions' = IF a.save
                             THEN Upsert(captions, NameNow(t), res.caption)
                             ELSE captions
              /\ writes' = [writes EXCEPT ![t] = IF a.save THEN @ + 1 ELSE @]
              /\ outcome' = [outcome EXCEPT ![t] = out]
              /\ pc' = [pc EXCEPT ![t] =
                            IF a.next \in {"success", "failed"} THEN "returned"
                            ELSE a.next]
              /\ progress_log' = IF a.next = "failed"
                                 THEN Append(progress_log, FailedMessage(NameNow(t)))
                                 ELSE progress_log
    /\ UNCHANGED <<self_vars, image_path, batch_vars, result_log, calls,
                   cancel_seen, call_after_cancel, stop_at, reqs, runs,
                   batches>>
    /\ UNCHANGED <<viewed, ingest_vars>>
    /\ UNCHANGED prompt_vars
    /\ UNCHANGED bridge_vars
    /\ UNCHANGED pure_vars

\* asyncio.sleep(1) is over
Wake(t) ==
    /\ pc[t] = "sleep"
    /\ pc' = [pc EXCEPT ![t] = "call"]
    /\ UNCHANGED <<self_vars, task, retry_count, last_error, image_path,
                   batch_vars, captions, log_vars, ghost_vars>>
    /\ UNCHANGED <<conn, api_vars, ingest_vars>>
    /\ UNCHANGED prompt_vars
    /\ UNCHANGED bridge_vars
    /\ UNCHANGED pure_vars

----------------------------------------------------------------------------
(* The worker thread *)

\* FileAPI.generate_caption -> generate_caption_async: store the request in
\* the instance and start() the thread; QThread.start() does nothing when the
\* thread is already running
generate_caption_async(req) ==
    /\ reqs < MaxRequests
    /\ reqs' = reqs + 1
    /\ image_name' = req.image
    /\ model_type' = req.model_type
    /\ settings' = req.settings
    /\ IF pc["worker"] = "idle"
       THEN /\ pc' = [pc EXCEPT !["worker"] = "started"]
            /\ runs' = runs + 1
       ELSE UNCHANGED <<pc, runs>>
    /\ UNCHANGED <<session_dir, event_loop, current_task, task, retry_count,
                   last_error, image_path, batch_vars, captions, log_vars,
                   outcome, calls, writes, only_raise, cancel_seen, cancel_hit,
                   call_after_cancel, stop_at, batches>>
    /\ UNCHANGED <<conn, api_vars, ingest_vars>>
    /\ UNCHANGED prompt_vars
    /\ handlers' = handlers + 1
    /\ UNCHANGED events
    /\ UNCHANGED pure_vars

\* run: install a new event loop, then _generate_caption up to its retry loop
run ==
    /\ pc["worker"] = "started"
    /\ event_loop' = "worker"
    /\ BeginInvocation("worker")
    /\ LET v == Validate(image_name)
       IN  /\ outcome' = [outcome EXCEPT !["worker"] = v]
           /\ pc' = [pc EXCEPT !["worker"] =
                         IF v = NoOutcome THEN "call" ELSE "returned"]
    /\ image_path' = [image_path EXCEPT !["worker"] = image_name]
    /\ retry_count' = [retry_count EXCEPT !["worker"] = 0]
    /\ last_error' = [last_error EXCEPT !["worker"] = None]
    /\ final_prompt' = PromptFor(image_name)
    /\ UNCHANGED <<session_dir, image_name, model_type, settings, current_task,
                   task, batch_vars, captions, log_vars, stop_at, reqs, runs,
                   batches>>
    /\ UNCHANGED <<conn, api_vars, ingest_vars, prompts>>
    /\ UNCHANGED bridge_vars
    /\ UNCHANGED pure_vars

\* run, after _generate_caption returned: emit the result, close the loop
Finish ==
    /\ pc["worker"] = "returned"
    /\ result_log' = Append(result_log,
                            [type |-> "result", outcome |-> outcome["worker"],
                             results |-> <<>>, input |-> <<>>])
    /\ event_loop' = None
    /\ pc' = [pc EXCEPT !["worker"] = "idle"]
    /\ UNCHANGED <<session_dir, image_name, model_type, settings, current_task,
                   task, retry_count, last_error, image_path, batch_vars,
                   captions, progress_log, ghost_vars>>
    /\ UNCHANGED <<conn, api_vars, ingest_vars>>
    /\ UNCHANGED prompt_vars
    /\ events' = handlers
    /\ UNCHANGED handlers
    /\ UNCHANGED pure_vars

----------------------------------------------------------------------------
(* cancel_generation, on the UI thread *)

cancel_generation ==
    /\ IF current_task # None /\ task[current_task] = "pending"
       THEN /\ task' = [task EXCEPT ![current_task] = "cancelled"]
            /\ current_task' = None
       ELSE UNCHANGED <<task, current_task>>
    /\ cancel_seen' = [t \in Threads |->
                          \/ cancel_seen[t]
                          \/ pc[t] \in {"inflight", "sleep"}
                          \/ (pc[t] = "call" /\ calls[t] > 0)]
    /\ stop_at' = IF stop_at = 0 /\ pc["batch"] = "item" /\ i >= 1
                  THEN i ELSE stop_at
    /\ UNCHANGED <<session_dir, image_name, model_type, settings, event_loop,
                   pc, retry_count, last_error, image_path, batch_vars,
                   captions, log_vars, outcome, calls, writes, only_raise,
                   cancel_hit, call_after_cancel, reqs, runs, batches>>
    /\ UNCHANGED <<conn, api_vars, ingest_vars>>
    /\ UNCHANGED prompt_vars
    /\ UNCHANGED bridge_vars
    /\ UNCHANGED pure_vars

----------------------------------------------------------------------------
(* generate_batch_captions, on its caller's thread *)

\* ProgressEvent emitting the loop variable i itself instead of i + 1
ProgressEventZeroBased(k, names) ==
    [kind |-> "progress", current |-> k - 1, total |-> Len(names),
     processing |-> names[k]]

\* json.dumps({"current": i + 1, "total": len(image_names), "processing": ...})
ProgressEvent(k, names) ==
    [kind |-> "progress", current |-> k, total |-> Len(names),
     processing |-> names[k]]

\* results.append(json.loads(result))
AppendResult(rs, out) == Append(rs, out)

generate_batch_captions(req) ==
    /\ pc["batch"] = "idle"
    /\ batches < MaxBatches
    /\ batches' = batches + 1
    /\ model_type' = req.model_type
    /\ settings' = req.settings
    /\ image_names' = req.names
    /\ results' = <<>>
    /\ i' = 0
    /\ stop_at' = 0
    /\ pc' = [pc EXCEPT !["batch"] = "item"]
    /\ UNCHANGED <<session_dir, image_name, event_loop, current_task, task,
                   retry_count, last_error, image_path, captions, log_vars,
                   outcome, calls, writes, only_raise, cancel_seen, cancel_hit,
                   call_after_cancel, reqs, runs>>
    /\ UNCHANGED <<conn, api_vars, ingest_vars>>
    /\ UNCHANGED prompt_vars
    /\ UNCHANGED bridge_vars
    /\ UNCHANGED pure_vars

\* one iteration begins: emit progress, make sure there is an event loop, and
\* run _generate_caption_for_batch on it up to its retry loop.  While the
\* worker runs its own loop, self._event_loop is that loop and
\* run_until_complete raises RuntimeError, which `except Exception` turns
\* into the item's error entry.
BatchItem ==
    /\ pc["batch"] = "item"
    /\ i < Len(image_names)
    /\ i' = i + 1
    /\ progress_log' = Append(progress_log, ProgressEvent(i + 1, image_names))
    /\ BeginInvocation("batch")
    /\ IF event_loop = "worker"
       THEN /\ results' = Append(results,
                                 ErrorResult("This event loop is already running",
                                             image_names[i + 1]))
            /\ outcome' = [outcome EXCEPT !["batch"] = NoOutcome]
            /\ UNCHANGED <<event_loop, pc, image_path, retry_count, last_error,
                           final_prompt>>
       ELSE LET v == Validate(image_names[i + 1])
            IN  /\ event_loop' = "batch"
                /\ final_prompt' = PromptFor(image_names[i + 1])
                /\ outcome' = [outcome EXCEPT !["batch"] = v]
                /\ pc' = [pc EXCEPT !["batch"] =
                              IF v = NoOutcome THEN "call" ELSE "returned"]
                /\ image_path' = [image_path EXCEPT !["batch"] = image_names[i + 1]]
                /\ retry_count' = [retry_count EXCEPT !["batch"] = 0]
                /\ last_error' = [last_error EXCEPT !["batch"] = None]
                /\ UNCHANGED results
    /\ UNCHANGED <<session_dir, image_name, model_type, settings, current_task,
                   task, image_names, captions, result_log, stop_at, reqs, runs,
                   batches>>
    /\ UNCHANGED <<conn, api_vars, ingest_vars, prompts>>
    /\ UNCHANGED bridge_vars
    /\ UNCHANGED pure_vars

\* the engine returned: append its result, emit progress again
BatchAppend ==
    /\ pc["batch"] = "returned"
    /\ results' = AppendResult(results, outcome["batch"])
    /\ progress_log' = Append(progress_log, ProgressEvent(i, image_names))
    /\ pc' = [pc EXCEPT !["batch"] = "item"]
    /\ UNCHANGED <<self_vars, task, retry_count, last_error, image_path,
                   image_names, i, captions, result_log, ghost_vars>>
    /\ UNCHANGED <<conn, api_vars, ingest_vars>>
    /\ UNCHANGED prompt_vars
    /\ UNCHANGED bridge_vars
    /\ UNCHANGED pure_vars

\* the loop is over: emit batch_complete with the results
BatchComplete ==
    /\ pc["batch"] = "item"
    /\ i = Len(image_names)
    /\ result_log' = Append(result_log,
                            [type |-> "batch_complete", outcome |-> NoOutcome,
                             results |-> results, input |-> image_names])
    /\ pc' = [pc EXCEPT !["batch"] = "idle"]
    /\ UNCHANGED <<self_vars, task, retry_count, last_error, image_path,
                   batch_vars, captions, progress_log, ghost_vars>>
    /\ UNCHANGED <<conn, api_vars, ingest_vars>>
    /\ UNCHANGED prompt_vars
    /\ events' = handlers
    /\ UNCHANGED handlers
    /\ UNCHANGED pure_vars

----------------------------------------------------------------------------
(* The caption store as FileAPI uses it (main.py).  Every accessor runs      *)
(* inside FileAPI.get_db, which closes its connection in a finally clause;   *)
(* a statement that raises is caught by the accessor and changes nothing.    *)

\* the identifiers and captions the frontend passes to the store operations
StoreNames == {"a.jpg", "b.jpg"}

StoreCaptions == { <<"a", "cat">>, <<"a", "dog">> }

\* SELECT caption FROM captions WHERE image_name = ? ... fetchone():
\* the caption of a matching row, '' when there is none
get_caption(rows, name) ==
    IF \E r \in rows : r.image_name = name
    THEN (CHOOSE r \in rows : r.image_name = name).caption
    ELSE <<>>

\* DELETE FROM viewed_images WHERE image_name = ? that deletes nothing
UnmarkViewedNoop(rows, name) == rows

\* INSERT OR REPLACE INTO viewed_images (image_name, viewed_at)
MarkViewed(rows, name) == rows \cup {name}

\* DELETE FROM viewed_images WHERE image_name = ?
UnmarkViewed(rows, name) == rows \ {name}

\* SELECT image_name FROM viewed_images
get_viewed_images == viewed

save_caption(name, caption) ==
    /\ Truthy(session_dir)
    /\ captions' = Upsert(captions, name, caption)
    /\ last_write' = [image_name |-> name, caption |-> caption, made |-> TRUE]
    /\ UNCHANGED <<self_vars, local_vars, batch_vars, log_vars, ghost_vars,
                   conn, viewed, ingest_vars>>
    /\ UNCHANGED prompt_vars
    /\ UNCHANGED bridge_vars
    /\ UNCHANGED pure_vars

mark_image_viewed(name) ==
    /\ Truthy(session_dir)
    /\ viewed' = MarkViewed(viewed, name)
    /\ UNCHANGED <<self_vars, local_vars, batch_vars, captions, log_vars,
                   ghost_vars, conn, last_write, ingest_vars>>
    /\ UNCHANGED prompt_vars
    /\ UNCHANGED bridge_vars
    /\ UNCHANGED pure_vars

unmark_image_viewed(name) ==
    /\ Truthy(session_dir)
    /\ viewed' = UnmarkViewed(viewed, name)
    /\ UNCHANGED <<self_vars, local_vars, batch_vars, captions, log_vars,
                   ghost_vars, conn, last_write, ingest_vars>>
    /\ UNCHANGED prompt_vars
    /\ UNCHANGED bridge_vars
    /\ UNCHANGED pure_vars

----------------------------------------------------------------------------
(* Ingestion: FileProcessor (file_processor.py) and its callers in main.py *)

MaxSubmits == 2      \* process_files calls in one behaviour

\* the files the user can submit; name is the path's basename
A_jpg == [dir |-> "/in", stem |-> "a", ext |-> ".jpg", name |-> "a.jpg"]
A_txt == [dir |-> "/in", stem |-> "a", ext |-> ".txt", name |-> "a.txt"]
D_png == [dir |-> "/in", stem |-> "d", ext |-> ".png", name |-> "d.png"]
Album == [dir |-> "/in", stem |-> "album", ext |-> "", name |-> "album"]
E_gif == [dir |-> "/in/album", stem |-> "e", ext |-> ".gif", name |-> "e.gif"]
F_JPG == [dir |-> "/in/album", stem |-> "f", ext |-> ".JPG", name |-> "f.JPG"]
F_txt == [dir |-> "/in/album", stem |-> "f", ext |-> ".txt", name |-> "f.txt"]
G_jpeg == [dir |-> "/in/album", stem |-> "g", ext |-> ".jpeg", name |-> "g.jpeg"]
N_txt == [dir |-> "/in/album", stem |-> "notes", ext |-> ".txt", name |-> "notes.txt"]
\* a directory with an image and, in a sub-directory, an image of the same name
Nest == [dir |-> "/in", stem |-> "nest", ext |-> "", name |-> "nest"]
H_gif == [dir |-> "/in/nest", stem |-> "h", ext |-> ".gif", name |-> "h.gif"]
Sub_h_gif == [dir |-> "/in/nest/sub", stem |-> "h", ext |-> ".gif", name |-> "h.gif"]
Gone  == [dir |-> "/in", stem |-> "zz", ext |-> ".jpg", name |-> "zz.jpg"]

SourceFiles ==
    {A_jpg, A_txt, D_png, E_gif, F_JPG, F_txt, G_jpeg, N_txt, H_gif, Sub_h_gif}
SourceDirs == {Album, Nest}

\* os.path.exists / isfile / isdir
Exists(p) == p \in SourceFiles \cup SourceDirs
IsFile(p) == p \in SourceFiles
IsDir(p) == p \in SourceDirs

\* os.walk(d): the files below d, in the order the file system lists them
Walk(d) ==
    IF d = Album THEN <<G_jpeg, N_txt, E_gif, F_txt, F_JPG>>
    ELSE IF d = Nest THEN <<H_gif, Sub_h_gif>>
    ELSE <<>>

\* the paths in ascending order of their strings, as str.__lt__ compares them
\* ('.' < 'J' < 'l' < 't', and a prefix precedes its extensions)
PathOrder ==
    <<A_jpg, A_txt, Album, E_gif, F_JPG, F_txt, G_jpeg, N_txt, D_png, Nest,
      H_gif, Sub_h_gif, Gone>>
Rank(p) == CHOOSE k \in 1..Len(PathOrder) : PathOrder[k] = p
Before(p, q) == Rank(p) < Rank(q)

RECURSIVE Insert(_, _)
\* seq, which is ascending, with p put at its place
Insert(seq, p) ==
    IF seq = <<>> THEN <<p>>
    ELSE IF Before(p, Head(seq)) THEN <<p>> \o seq
    ELSE <<Head(seq)>> \o Insert(Tail(seq), p)

\* the directory's images put on the queue in the order os.walk found them
SortNot(seq) == seq

RECURSIVE Sort(_)
\* list.sort() of a list of paths
Sort(seq) == IF seq = <<>> THEN <<>> ELSE Insert(Sort(Tail(seq)), Head(seq))

\* ext.lower() in {'.jpg', '.jpeg', '.png', '.gif'}
Lower(e) == IF e = ".JPG" THEN ".jpg" ELSE e
IsImage(p) == Lower(p.ext) \in {".jpg", ".jpeg", ".png", ".gif"}

\* f"{os.path.splitext(path)[0]}.txt" exists
HasTxt(p) == \E q \in SourceFiles : q.dir = p.dir /\ q.stem = p.stem /\ q.ext = ".txt"
TxtPath(p) == CHOOSE q \in SourceFiles : q.dir = p.dir /\ q.stem = p.stem /\ q.ext = ".txt"

\* f.read() of a text file, as words and white space
FileText(q) ==
    IF q = A_txt THEN <<" ", "a", "cat", " ">>
    ELSE IF q = F_txt THEN <<"a", "dog", " ", " ">>
    ELSE <<"notes">>

RECURSIVE Strip(_)
\* str.strip()
Strip(text) ==
    IF text = <<>> THEN <<>>
    ELSE IF Head(text) = " " THEN Strip(Tail(text))
    ELSE IF text[Len(text)] = " " THEN Strip(SubSeq(text, 1, Len(text) - 1))
    ELSE text

RECURSIVE Enqueued(_)
\* what process_files puts on the queue for file_paths: every path that
\* exists, followed by its .txt file when that exists
Enqueued(file_paths) ==
    IF file_paths = <<>> THEN <<>>
    ELSE LET path == Head(file_paths)
         IN  (IF Exists(path)
              THEN <<path>> \o (IF HasTxt(path) THEN <<TxtPath(path)>> ELSE <<>>)
              ELSE <<>>) \o Enqueued(Tail(file_paths))

\* the file_paths arguments of process_files
Submissions == { <<A_jpg>>, <<D_png, Album>>, <<Gone>> }

\* file_paths arguments with a directory that has sub-directories
NestedSubmissions == { <<Nest>>, <<A_jpg, Nest>> }

\* int((files_processed / total_files) * 100) if total_files > 0 else 0
\* (the float product and the integer quotient agree on the counts that occur)
Progress(done, total) == IF total > 0 THEN (done * 100) \div total ELSE 0

\* the thread blocks in stop() -> wait() until the worker has finished
UIFree == ~(_stop_event /\ ingest_pc # "idle")

\* FileAPI.get_import_progress: what a poll answers
get_import_progress ==
    IF current_progress = 100
    THEN [progress |-> 0, complete |-> TRUE,
          files |-> SelectSeq(processed_files,
                              LAMBDA f : f.name \in session_files)]
    ELSE [progress |-> current_progress, complete |-> FALSE, files |-> <<>>]

MaxPolls == 2        \* the delivery counter saturates here

\* FileAPI.add_files -> process_files
process_files(file_paths) ==
    /\ UIFree
    /\ Truthy(session_dir)
    /\ submits < MaxSubmits
    /\ submits' = submits + 1
    /\ deliveries' = 0
    /\ processed_files' = <<>>
    /\ copied' = IF ingest_pc = "idle" THEN <<>> ELSE copied
    /\ queue' = queue \o Enqueued(file_paths)
    /\ IF ingest_pc = "idle" /\ \E k \in 1..Len(file_paths) : Exists(file_paths[k])
       THEN /\ _stop_event' = FALSE
            /\ ingest_pc' = "started"
       ELSE UNCHANGED <<_stop_event, ingest_pc>>
    /\ UNCHANGED <<self_vars, local_vars, batch_vars, captions, log_vars,
                   ghost_vars, conn, api_vars, current_progress,
                   files_processed, total_files, session_files, mishap,
                   prompt_vars>>
    /\ UNCHANGED bridge_vars
    /\ UNCHANGED pure_vars

\* FileAPI.get_import_progress, polled by the frontend: it reads
\* current_progress and the processed files and writes nothing
poll_import_progress ==
    /\ UIFree
    /\ submits > 0
    /\ deliveries' = IF get_import_progress.complete
                     THEN Min(deliveries + 1, MaxPolls) ELSE deliveries
    /\ UNCHANGED <<self_vars, local_vars, batch_vars, captions, log_vars,
                   ghost_vars, conn, api_vars, queue, _stop_event,
                   current_progress, processed_files, files_processed,
                   total_files, ingest_pc, submits, session_files, copied,
                   mishap, prompt_vars>>
    /\ UNCHANGED bridge_vars
    /\ UNCHANGED pure_vars

\* FileProcessor.run up to its loop
FileProcessor_run ==
    /\ ingest_pc = "started"
    /\ files_processed' = 0
    /\ total_files' = Len(queue)
    /\ ingest_pc' = "loop"
    /\ copied' = <<>>
    /\ mishap' = "none"
    /\ UNCHANGED <<self_vars, local_vars, batch_vars, captions, log_vars,
                   ghost_vars, conn, api_vars, queue, _stop_event,
                   current_progress, processed_files, submits, session_files,
                   deliveries, prompt_vars>>
    /\ UNCHANGED bridge_vars
    /\ UNCHANGED pure_vars

\* the end of an iteration that was not left by `continue`
Counted(total) ==
    /\ files_processed' = files_processed + 1
    /\ total_files' = total
    /\ current_progress' = Progress(files_processed + 1, total)

\* the loop condition of run with the stop event ignored
MayProceedAlways == TRUE

\* while not self._stop_event.is_set()
MayProceed == ~_stop_event

\* a failed copy that ends the loop
CopyFailedAborts(rest) ==
    /\ queue' = rest
    /\ ingest_pc' = "exit"
    /\ mishap' = "copy"
    /\ UNCHANGED <<captions, last_write, session_files, processed_files,
                   files_processed, total_files, current_progress, copied>>

\* shutil.copy2 raised: `except Exception ... continue` goes on with the next
\* entry, without counting this one
CopyFailed(rest) ==
    /\ queue' = rest
    /\ ingest_pc' = "loop"
    /\ mishap' = "copy"
    /\ UNCHANGED <<captions, last_write, session_files, processed_files,
                   files_processed, total_files, current_progress, copied>>

\* one iteration of the loop of FileProcessor.run on the head of the queue
ProcessEntry ==
    /\ ingest_pc = "loop"
    /\ MayProceed
    /\ queue # <<>>
    /\ LET file_path == Head(queue)
           rest == Tail(queue)
       IN  IF IsFile(file_path) /\ IsImage(file_path)
           THEN \E copy_ok \in BOOLEAN, db_ok \in BOOLEAN :
                  IF ~copy_ok
                  THEN CopyFailed(rest)
                  ELSE LET has_caption == HasTxt(file_path) /\ db_ok
                           caption == Strip(FileText(TxtPath(file_path)))
                       IN  /\ queue' = rest
                           /\ session_files' = session_files \cup {file_path.name}
                           /\ copied' = Append(copied, file_path)
                           /\ mishap' = IF HasTxt(file_path) /\ ~db_ok
                                        THEN "sidecar" ELSE "none"
                           /\ captions' = IF has_caption
                                          THEN Upsert(captions, file_path.name, caption)
                                          ELSE captions
                           /\ last_write' = IF has_caption
                                            THEN [image_name |-> file_path.name,
                                                  caption |-> caption, made |-> TRUE]
                                            ELSE last_write
                           /\ processed_files' =
                                  Append(processed_files,
                                         [name |-> file_path.name,
                                          hasCaption |-> has_caption])
                           /\ Counted(total_files)
                           /\ UNCHANGED ingest_pc
           ELSE IF IsDir(file_path)
           THEN LET image_files == Sort(SelectSeq(Walk(file_path), IsImage))
                IN  /\ queue' = rest \o image_files
                    /\ Counted(total_files + Len(image_files))
                    /\ mishap' = "none"
                    /\ UNCHANGED <<captions, last_write, session_files,
                                   processed_files, copied, ingest_pc>>
           ELSE /\ queue' = rest
                /\ Counted(total_files)
                /\ mishap' = "none"
                /\ UNCHANGED <<captions, last_write, session_files,
                               processed_files, copied, ingest_pc>>
    /\ UNCHANGED <<self_vars, local_vars, batch_vars, log_vars, ghost_vars,
                   conn, viewed, _stop_event, submits, deliveries, prompt_vars>>
    /\ UNCHANGED bridge_vars
    /\ UNCHANGED pure_vars

\* the loop ends: the stop event is set, or the queue is empty
LoopExit ==
    /\ ingest_pc = "loop"
    /\ ~MayProceed \/ queue = <<>>
    /\ ingest_pc' = "exit"
    /\ UNCHANGED <<self_vars, local_vars, batch_vars, captions, log_vars,
                   ghost_vars, conn, api_vars, queue, _stop_event,
                   current_progress, processed_files, files_processed,
                   total_files, submits, session_files, ingest_ghosts,
                   prompt_vars>>
    /\ UNCHANGED bridge_vars
    /\ UNCHANGED pure_vars

\* FileProcessor.run after its loop: progress is set to 100, the thread ends
FileProcessor_done ==
    /\ ingest_pc = "exit"
    /\ current_progress' = 100
    /\ ingest_pc' = "idle"
    /\ UNCHANGED <<self_vars, local_vars, batch_vars, captions, log_vars,
                   ghost_vars, conn, api_vars, queue, _stop_event,
                   processed_files, files_processed, total_files, submits,
                   session_files, ingest_ghosts, prompt_vars>>
    /\ UNCHANGED bridge_vars
    /\ UNCHANGED pure_vars

\* FileProcessor.stop: set the event, then wait() for the thread
stop ==
    /\ UIFree
    /\ ~_stop_event
    /\ _stop_event' = TRUE
    /\ UNCHANGED <<self_vars, local_vars, batch_vars, captions, log_vars,
                   ghost_vars, conn, api_vars, queue, current_progress,
                   processed_files, files_processed, total_files, ingest_pc,
                   submits, session_files, ingest_ghosts, prompt_vars>>
    /\ UNCHANGED bridge_vars
    /\ UNCHANGED pure_vars

----------------------------------------------------------------------------
(* The rejection classifier tried on texts *)

\* "I'm sorry, I cannot describe this image."
SorryCannot ==
    <<"I", "'", "m", " ", "s", "o", "r", "r", "y", ",", " ", "I", " ", "c",
      "a", "n", "n", "o", "t", " ", "d", "e", "s", "c", "r", "i", "b", "e",
      " ", "t", "h", "i", "s", " ", "i", "m", "a", "g", "e", ".">>

\* "A cat sits on a red chair."
CatOnChair ==
    <<"A", " ", "c", "a", "t", " ", "s", "i", "t", "s", " ", "o", "n", " ",
      "a", " ", "r", "e", "d", " ", "c", "h", "a", "i", "r", ".">>

\* texts that come near an indicator without containing one: "sory",
\* "apologize", "can not", "unable", "failed", "could", "eror", "valid",
\* "not able", and the sentence about the cat
NearMisses ==
    { <<"s", "o", "r", "y">>,
      <<"a", "p", "o", "l", "o", "g", "i", "z", "e">>,
      <<"c", "a", "n", " ", "n", "o", "t">>,
      <<"u", "n", "a", "b", "l", "e">>,
      <<"f", "a", "i", "l", "e", "d">>,
      <<"c", "o", "u", "l", "d">>,
      <<"e", "r", "o", "r">>,
      <<"v", "a", "l", "i", "d">>,
      <<"n", "o", "t", " ", "a", "b", "l", "e">>,
      <<"A", " ", "c", "a", "t", " ", "s", "i", "t", "s", " ", "o", "n", " ",
        "a", " ", "r", "e", "d", " ", "c", "h", "a", "i", "r", ".">> }

\* what a text can stand between: nothing, a letter, the start and the end of
\* a sentence
TextBefore == {<<>>, <<"t">>, <<"I", "'", "m", " ">>}
TextAfter == {<<>>, <<"s">>, <<",", " ", "o", "k", ".">>}

\* str.upper() on one character
upper(c) ==
    IF \E k \in 1..Len(LowerCase) : LowerCase[k] = c
    THEN UpperCase[CHOOSE k \in 1..Len(LowerCase) : LowerCase[k] = c]
    ELSE c

\* an indicator as it can be spelled: as listed, capitalised, in capitals
Spellings(indicator) ==
    { indicator,
      <<upper(Head(indicator))>> \o Tail(indicator),
      [k \in 1..Len(indicator) |-> upper(indicator[k])] }

\* the texts with an indicator in them, however spelled and wherever it stands
WithIndicator ==
    { pre \o core \o post :
        pre \in TextBefore, post \in TextAfter,
        core \in UNION { Spellings(indicator) : indicator \in rejection_indicators } }

\* the texts without one
WithoutIndicator ==
    { pre \o core \o post : pre \in TextBefore, post \in TextAfter, core \in NearMisses }

\* the captions the classifier is tried on
ProbeTexts == {<<>>, SorryCannot, CatOnChair} \cup WithIndicator \cup WithoutIndicator

\* _is_rejection_response is called with a caption
classify(caption) ==
    /\ probe' = caption
    /\ verdict' = IF _is_rejection_response(caption) THEN "rejection" ELSE "caption"
    /\ UNCHANGED <<self_vars, local_vars, batch_vars, captions, log_vars,
                   ghost_vars, conn, api_vars, ingest_vars, prompt_vars,
                   bridge_vars, script, single_result, batch_result>>

----------------------------------------------------------------------------
(* The two engines run against the same script *)

MaxScript == 3       \* ModelClient calls a script answers

\* what one call of the ModelClient and the store write after it do: r is
\* what the await yields, db how the write goes if the pass makes one
ScriptSteps(img) ==
    {[r |-> r, db |-> "ok"] : r \in Responses(img) \cup {Cancelled}}
        \cup {[r |-> [kind |-> "content", text |-> Describe(img)], db |-> db] :
                  db \in StoreWrites}

\* the engine's result: whether it has returned, what it returned, the
\* ModelClient calls it made and the rows it committed, in order
Began(v) ==
    [ran |-> TRUE, done |-> v # NoOutcome, outcome |-> v, calls |-> 0,
     writes |-> <<>>]

AfterPass(acc, a, res, name) ==
    [ran |-> TRUE,
     done |-> a.next \in {"success", "failed"},
     outcome |-> Returned(a, res, name),
     calls |-> acc.calls + 1,
     writes |-> IF a.save
                THEN Append(acc.writes,
                            [image_name |-> name, caption |-> res.caption])
                ELSE acc.writes]

RECURSIVE retry_loop(_, _, _, _)
\* the retry loop of _generate_caption: the identifier is self._image_name
\* wherever the loop uses it
retry_loop(steps, rc, le, acc) ==
    IF steps = <<>> THEN acc
    ELSE LET res == SdkResult(Head(steps).r)
             a == Attempt(res, Head(steps).db = "ok", rc, le)
             acc2 == AfterPass(acc, a, res, image_name)
         IN  IF acc2.done THEN acc2
             ELSE retry_loop(Tail(steps), a.retry_count, a.last_error, acc2)

\* async def _generate_caption(self)
_generate_caption(steps) ==
    LET began == Began(Validate(image_name))
    IN  IF began.done THEN began ELSE retry_loop(steps, 0, None, began)

\* the batch loop body with every failed pass counted
AttemptForBatchCounting(res, db_ok, rc, le) ==
    IF res.has_caption /\ ~_is_rejection_response(res.caption) /\ db_ok
    THEN [next |-> "success", save |-> TRUE, retry_count |-> rc,
          last_error |-> le]
    ELSE [next |-> IF rc + 1 >= max_retries THEN "failed" ELSE "sleep",
          save |-> FALSE, retry_count |-> rc + 1,
          last_error |-> IF res.has_caption THEN "sqlite3 error" ELSE res.error]

\* one pass of the body of the retry loop of _generate_caption_for_batch
\* (lines 417-465): result, write, rc, le and the fields as for Attempt
AttemptForBatch(res, db_ok, rc, le) ==
    IF ~res.has_caption
    THEN [next |-> IF rc < max_retries THEN "call" ELSE "failed",
          save |-> FALSE, retry_count |-> rc, last_error |-> le]
    ELSE IF _is_rejection_response(res.caption)
    THEN [next |-> IF rc < max_retries THEN "call" ELSE "failed",
          save |-> FALSE, retry_count |-> rc, last_error |-> le]
    ELSE IF db_ok
    THEN [next |-> "success", save |-> TRUE, retry_count |-> rc,
          last_error |-> le]
    ELSE [next |-> IF rc + 1 >= max_retries THEN "failed" ELSE "sleep",
          save |-> FALSE, retry_count |-> rc + 1,
          last_error |-> "sqlite3 error"]

RECURSIVE retry_loop_for_batch(_, _, _, _, _)
\* the retry loop of _generate_caption_for_batch: the identifier is the
\* parameter
retry_loop_for_batch(name, steps, rc, le, acc) ==
    IF steps = <<>> THEN acc
    ELSE LET res == SdkResult(Head(steps).r)
             a == AttemptForBatch(res, Head(steps).db = "ok", rc, le)
             acc2 == AfterPass(acc, a, res, name)
         IN  IF acc2.done THEN acc2
             ELSE retry_loop_for_batch(name, Tail(steps), a.retry_count,
                                       a.last_error, acc2)

\* async def _generate_caption_for_batch(self, image_name)
_generate_caption_for_batch(name, steps) ==
    LET began == Began(Validate(name))
    IN  IF began.done THEN began
        ELSE retry_loop_for_batch(name, steps, 0, None, began)

\* the script gets one more call; the engines have not run against it
supply(step) ==
    /\ Len(script) < MaxScript
    /\ script' = Append(script, step)
    /\ single_result' = NoResult
    /\ batch_result' = NoResult
    /\ UNCHANGED <<self_vars, local_vars, batch_vars, captions, log_vars,
                   ghost_vars, conn, api_vars, ingest_vars, prompt_vars,
                   bridge_vars, probe, verdict>>

\* the single-image engine runs against the script
single_engine ==
    /\ single_result' = _generate_caption(script)
    /\ UNCHANGED <<self_vars, local_vars, batch_vars, captions, log_vars,
                   ghost_vars, conn, api_vars, ingest_vars, prompt_vars,
                   bridge_vars, probe, verdict, script, batch_result>>

\* the batch engine runs against the script for the identifier the instance
\* holds
batch_engine ==
    /\ batch_result' = _generate_caption_for_batch(image_name, script)
    /\ UNCHANGED <<self_vars, local_vars, batch_vars, captions, log_vars,
                   ghost_vars, conn, api_vars, ingest_vars, prompt_vars,
                   bridge_vars, probe, verdict, script, single_result>>

----------------------------------------------------------------------------
(* Specifications *)

\* the whole system: every caller, both threads
Next ==
    \/ \E req \in Requests : generate_caption_async(req)
    \/ run
    \/ Finish
    \/ cancel_generation
    \/ \E req \in BatchRequests : generate_batch_captions(req)
    \/ BatchItem
    \/ BatchAppend
    \/ BatchComplete
    \/ \E t \in Threads : CallModel(t)
    \/ \E t \in Threads : Respond(t)
    \/ \E t \in Threads : Wake(t)
    \/ \E name \in StoreNames, caption \in StoreCaptions : save_caption(name, caption)
    \/ \E name \in StoreNames : mark_image_viewed(name)
    \/ \E name \in StoreNames : unmark_image_viewed(name)
    \/ \E file_paths \in Submissions : process_files(file_paths)
    \/ poll_import_progress
    \/ FileProcessor_run
    \/ ProcessEntry
    \/ LoopExit
    \/ FileProcessor_done
    \/ stop

Spec == Init /\ [][Next]_vars

\* single-image generation: the UI thread and the worker
NextSingle ==
    \/ \E req \in Requests : generate_caption_async(req)
    \/ run
    \/ Finish
    \/ cancel_generation
    \/ CallModel("worker")
    \/ Respond("worker")
    \/ Wake("worker")

SingleSpec == Init /\ [][NextSingle]_vars

\* threads are scheduled, the endpoint answers or the transport gives up,
\* sleeps end
LiveSpec ==
    /\ SingleSpec
    /\ WF_vars(run)
    /\ WF_vars(Finish)
    /\ WF_vars(CallModel("worker"))
    /\ WF_vars(Respond("worker"))
    /\ WF_vars(Wake("worker"))

\* a batch run and the UI thread's cancel_generation
NextBatch ==
    \/ \E req \in BatchRequests : generate_batch_captions(req)
    \/ BatchItem
    \/ BatchAppend
    \/ BatchComplete
    \/ cancel_generation
    \/ CallModel("batch")
    \/ Respond("batch")
    \/ Wake("batch")

BatchSpec == Init /\ [][NextBatch]_vars

\* a batch run that nobody cancels, fairly scheduled
NextBatchAlone ==
    \/ \E req \in BatchRequests : generate_batch_captions(req)
    \/ BatchItem
    \/ BatchAppend
    \/ BatchComplete
    \/ CallModel("batch")
    \/ Respond("batch")
    \/ Wake("batch")

BatchLiveSpec ==
    /\ Init
    /\ [][NextBatchAlone]_vars
    /\ WF_vars(BatchItem)
    /\ WF_vars(BatchAppend)
    /\ WF_vars(BatchComplete)
    /\ WF_vars(CallModel("batch"))
    /\ WF_vars(Respond("batch"))
    /\ WF_vars(Wake("batch"))

\* one single-image request and one one-item batch on the same instance
OneRequest == [image |-> "a.jpg", model_type |-> "openai", settings |-> GoodSettings]

\* a request whose image is in the session directory, and one whose is not
PromptRequests ==
    {OneRequest,
     [image |-> "zz.jpg", model_type |-> "openai", settings |-> GoodSettings]}

OneBatch == [names |-> <<"b.jpg">>, model_type |-> "openai", settings |-> GoodSettings]

NextConc ==
    \/ generate_caption_async(OneRequest)
    \/ run
    \/ Finish
    \/ generate_batch_captions(OneBatch)
    \/ BatchItem
    \/ BatchAppend
    \/ BatchComplete
    \/ \E t \in Threads : CallModel(t)
    \/ \E t \in Threads : Respond(t)
    \/ \E t \in Threads : Wake(t)

ConcSpec == Init /\ [][NextConc]_vars

\* ingestion: the UI thread's add_files and stop, and the FileProcessor thread
NextIngest ==
    \/ \E file_paths \in Submissions : process_files(file_paths)
    \/ poll_import_progress
    \/ FileProcessor_run
    \/ ProcessEntry
    \/ LoopExit
    \/ FileProcessor_done
    \/ stop

IngestSpec == Init /\ [][NextIngest]_vars

\* the FileProcessor by itself: submissions, stop and the worker thread,
\* without the frontend's polling
NextFileProcessor ==
    \/ \E file_paths \in Submissions : process_files(file_paths)
    \/ FileProcessor_run
    \/ ProcessEntry
    \/ LoopExit
    \/ FileProcessor_done
    \/ stop

FileProcessorSpec == Init /\ [][NextFileProcessor]_vars

\* the FileProcessor given directories that have sub-directories
NextNested ==
    \/ \E file_paths \in NestedSubmissions : process_files(file_paths)
    \/ FileProcessor_run
    \/ ProcessEntry
    \/ LoopExit
    \/ FileProcessor_done
    \/ stop

NestedSpec == Init /\ [][NextNested]_vars

\* the prompt: requests for either image of RequestedImages with any caption
\* configuration, each taken by run up to the retry loop (the call and what
\* follows do not touch the prompt)
NextPrompt ==
    \/ \E req \in PromptRequests :
           pc["worker"] = "idle" /\ generate_caption_async(req)
    \/ run

PromptSpec == PromptInit /\ [][NextPrompt]_vars

\* the classifier by itself, on any of the probe texts, any number of times
NextClassifier == \E caption \in ProbeTexts : classify(caption)

ClassifierSpec == Init /\ [][NextClassifier]_vars

\* the two engines: an instance that holds a request, a script of up to
\* MaxScript calls, and either engine run against it
EquivInit ==
    /\ InitRest
    /\ \E req \in Requests :
           /\ image_name = req.image
           /\ model_type = req.model_type
           /\ settings = req.settings
    /\ prompts = DefaultPrompts
    /\ final_prompt = <<>>
    /\ InitPure

NextEquiv ==
    \/ \E step \in ScriptSteps(image_name) : supply(step)
    \/ single_engine
    \/ batch_engine

EquivSpec == EquivInit /\ [][NextEquiv]_vars

\* the caption store: the frontend's store operations at any time, the
\* ingestion of one submitted image that has a sidecar, and the generation of
\* one request
NextStore ==
    \/ \E name \in StoreNames, caption \in StoreCaptions : save_caption(name, caption)
    \/ \E name \in StoreNames : mark_image_viewed(name)
    \/ \E name \in StoreNames : unmark_image_viewed(name)
    \/ submits = 0 /\ process_files(<<A_jpg>>)
    \/ FileProcessor_run
    \/ ProcessEntry
    \/ LoopExit
    \/ FileProcessor_done
    \/ reqs = 0 /\ generate_caption_async(OneRequest)
    \/ run
    \/ Finish
    \/ CallModel("worker")
    \/ Respond("worker")
    \/ Wake("worker")

StoreSpec == Init /\ [][NextStore]_vars

----------------------------------------------------------------------------
(* Claims *)

\* C1: an invocation that passed validation issues at most 3 ModelClient
\* calls, whatever the calls yield.
CallCeiling == \A t \in Threads : calls[t] <= max_retries

\* C2: every generate invocation eventually returns a terminal outcome.
GenerateTerminates == (pc["worker"] = "call") ~> (pc["worker"] = "returned")

\* C3: when every ModelClient call raises a transport failure, the invocation
\* makes exactly 3 calls and then has returned 'Failed after 3 attempts' with
\* the last error, having written nothing to the store.
TransportFailureExhausts ==
    \A t \in Threads :
        only_raise[t] =>
            /\ calls[t] <= max_retries
            /\ (calls[t] = max_retries /\ pc[t] # "inflight") =>
                   /\ pc[t] = "returned"
                   /\ outcome[t].status = "error"
                   /\ outcome[t].error = "Failed after 3 attempts"
                   /\ outcome[t].detail # None
                   /\ writes[t] = 0

\* C4: an invocation has committed exactly one store write when its outcome
\* is a success and none when its outcome is a failure.
OneWritePerSuccess ==
    \A t \in Threads :
        /\ outcome[t].status = "success" => writes[t] = 1
        /\ outcome[t].status \in {"error", "absent"} => writes[t] = 0

\* C4 witness: a success whose write was committed after an earlier write of
\* the same invocation had failed.
SuccessAfterFailedWrite ==
    /\ outcome["worker"].status = "success"
    /\ retry_count["worker"] > 0
    /\ writes["worker"] = 1

\* C5: an invocation one of whose in-flight calls was cancelled (its await
\* raised CancelledError) ends with a Cancelled outcome.
CancelledOutcomeDistinct ==
    \A t \in Threads :
        (cancel_hit[t] /\ pc[t] = "returned") => outcome[t].status = "cancelled"

\* C6: once cancel_generation has run during an invocation, the invocation
\* issues no further ModelClient call.
NoCallAfterCancel == \A t \in Threads : ~call_after_cancel[t]

\* C7: a request issued while the worker of an earlier request is running
\* stops that run and is then executed by a run of its own.
NewRequestSupersedes ==
    [][(reqs' = reqs + 1 /\ pc["worker"] # "idle") =>
           (runs' = runs + 1 /\ pc'["worker"] = "started")]_vars

\* C8: at most one ModelClient call is in flight for the instance.
OneCallInFlight == Cardinality({t \in Threads : pc[t] = "inflight"}) <= 1

\* the last event on the result signal is the batch_complete of this run,
\* with one entry per input identifier, in input order
CompleteInOrder ==
    /\ result_log # <<>>
    /\ LET e == result_log[Len(result_log)]
       IN  /\ e.type = "batch_complete"
           /\ e.input = image_names
           /\ Len(e.results) = Len(e.input)
           /\ \A k \in 1..Len(e.results) : e.results[k].image_name = e.input[k]

\* C9: a batch run that is not cancelled ends with a batch_complete event
\* holding one outcome per input identifier in input order, also when items
\* fail.
BatchEndsComplete ==
    (pc["batch"] # "idle") ~> (pc["batch"] = "idle" /\ CompleteInOrder)

\* C10: when cancel_generation runs after the progress event of item k and
\* before item k+1 starts, no later item is begun, and the run's result event
\* is batch_cancelled with the outcomes of items 1..k.
StopEndsBatchEarly ==
    stop_at > 0 =>
        /\ i <= stop_at
        /\ pc["batch"] = "idle" =>
               /\ result_log # <<>>
               /\ result_log[Len(result_log)].type = "batch_cancelled"
               /\ Len(result_log[Len(result_log)].results) = stop_at

\* the terminal result events of batch runs emitted so far
TerminalEvents ==
    Cardinality({k \in 1..Len(result_log) :
                    result_log[k].type \in {"batch_complete", "batch_cancelled"}})

\* C11: every batch run ends with exactly one terminal result event
\* (batch_complete or batch_cancelled): a run that has begun leads to the
\* state where it is over and one terminal event per run has been emitted.
BatchNotifiedOnce ==
    (pc["batch"] # "idle") ~> (pc["batch"] = "idle" /\ TerminalEvents = batches)

\* the positions of the batch progress events in the progress signal's log
ProgressPositions == {k \in 1..Len(progress_log) : progress_log[k].kind = "progress"}

\* the batch progress event emitted last
LastProgress ==
    progress_log[CHOOSE k \in ProgressPositions : \A j \in ProgressPositions : j <= k]

\* while the engine works on item i (before, during and between its
\* ModelClient calls) the progress event emitted last is the one of item i
AnnouncedBeforeCall ==
    pc["batch"] \in {"call", "inflight", "sleep"} =>
        /\ ProgressPositions # {}
        /\ LastProgress = [kind |-> "progress", current |-> i,
                           total |-> Len(image_names),
                           processing |-> image_names[i]]

\* a step that emits a batch progress event emits the index of the item the
\* loop is at, between 1 and n, and 1 when it is the first of the run
EmitsCurrentIndex ==
    Len(progress_log') = Len(progress_log) + 1 =>
        LET e == progress_log'[Len(progress_log')]
        IN  e.kind = "progress" =>
                /\ e.current = i'
                /\ e.total = Len(image_names')
                /\ e.processing = image_names'[i']
                /\ 1 <= e.current
                /\ e.current <= e.total
                /\ i = 0 => e.current = 1

\* within a run the item index only advances, one item at a time
IndexAdvances ==
    i' # i => (i' = i + 1 \/ (i' = 0 /\ batches' = batches + 1))

\* C12: in a batch run the progress event {current = i, total = n,
\* processing = identifier i} is emitted before any ModelClient call for item
\* i, and the current indices emitted in a run never decrease, start at 1 and
\* never exceed n.
ProgressOrdered ==
    /\ []AnnouncedBeforeCall
    /\ [][EmitsCurrentIndex /\ IndexAdvances]_vars

\* C12 witness: the third item of a three-item batch has been announced and
\* its first ModelClient call is about to be issued.
ThirdItemAnnounced ==
    /\ pc["batch"] = "call"
    /\ i = 3
    /\ calls["batch"] = 0
    /\ Len(progress_log) >= 5

\* a precondition of generate is missing for the identifier name, or the
\* endpoint configuration of the stored model type is incomplete
PreconditionMissing(name) ==
    \/ session_dir = None
    \/ name = ""
    \/ name \notin session_files
    \/ ~settings.present
    \/ /\ model_type = "openai"
       /\ \/ settings.openai_apiKey \in {Absent, ""} /\ api_key = None
          \/ settings.openai_model = ""
    \/ /\ model_type # "openai"
       /\ \/ settings.joy_baseUrl \in {Absent, ""}
          \/ settings.joy_apiKey \in {Absent, ""}
          \/ settings.joy_model = ""

\* the step in which thread t enters the engine for the identifier name
EngineEntered(t, name) ==
    IF t = "worker"
    THEN pc["worker"] = "started" /\ pc'["worker"] # "started" /\ name = image_name
    ELSE /\ pc["batch"] = "item" /\ i' = i + 1 /\ event_loop # "worker"
         /\ name = image_names[i + 1]

\* the engine has returned at once: a failure outcome, no ModelClient call,
\* no retry, no store write
FailedAtOnce(t) ==
    /\ pc'[t] = "returned"
    /\ outcome'[t].error # ""
    /\ outcome'[t].status # "success"
    /\ calls'[t] = 0
    /\ retry_count'[t] = 0
    /\ writes'[t] = 0
    /\ captions' = captions

\* C13: when a precondition of generate is missing or the endpoint
\* configuration is incomplete, the engine returns a failure outcome at once,
\* with zero ModelClient calls, zero retries and zero store writes.
PreconditionFailsFast ==
    [][\A t \in Threads : \A name \in SessionFiles \cup {"", "gone.jpg"} :
          (EngineEntered(t, name) /\ PreconditionMissing(name)) => FailedAtOnce(t)]_vars

\* C13 witness: a vllm request without base URL has been turned down before
\* any ModelClient call.
TurnedDownWithoutBaseUrl ==
    /\ pc["worker"] = "returned"
    /\ outcome["worker"].error = "vLLM base URL not set"
    /\ calls["worker"] = 0
    /\ writes["worker"] = 0

\* the captions table holds at most one row per image identifier
OneRowPerImage ==
    \A r1, r2 \in captions : r1.image_name = r2.image_name => r1 = r2

\* get_caption of the identifier upserted last returns the caption upserted
LastWriteRead ==
    last_write.made =>
        get_caption(captions, last_write.image_name) = last_write.caption

\* an upsert is read back, and repeating it changes nothing
UpsertIdempotent ==
    \A name \in StoreNames, caption \in StoreCaptions :
        LET once == Upsert(captions, name, caption)
        IN  /\ get_caption(once, name) = caption
            /\ Upsert(once, name, caption) = once

\* a step changes the stored caption of no identifier but the one it upserts
OthersKept ==
    \A name \in StoreNames :
        (last_write' = last_write \/ name # last_write'.image_name) =>
            get_caption(captions', name) = get_caption(captions, name)

\* C14: after any sequence of upserts (generation, sidecar import,
\* save_caption) the store holds at most one row per identifier, get_caption
\* returns the caption upserted last for it, and an identical upsert leaves
\* the stored caption unchanged.
UpsertLastWriteWins ==
    /\ [](OneRowPerImage /\ LastWriteRead /\ UpsertIdempotent)
    /\ [][OthersKept]_vars

\* C14 witness: a.jpg was captioned by generation and by the sidecar import
\* and then by save_caption, whose caption is the one stored.
SavedOverGeneratedAndImported ==
    /\ writes["worker"] = 1
    /\ processed_files # <<>>
    /\ processed_files[1].hasCaption
    /\ last_write = [image_name |-> "a.jpg", caption |-> <<"a", "dog">>,
                     made |-> TRUE]
    /\ get_caption(captions, "b.jpg") = <<"a", "cat">>

\* a step that changes the viewed marks leaves the captions alone, and a step
\* that upserts a caption leaves the viewed marks alone
MarksAndCaptionsApart ==
    /\ viewed' # viewed => (captions' = captions /\ last_write' = last_write)
    /\ (captions' # captions \/ last_write' # last_write) => viewed' = viewed

\* marking twice is marking once, and unmarking a marked image leaves it
\* without a mark
MarkAlgebra ==
    \A name \in StoreNames :
        LET marked == MarkViewed(viewed, name)
        IN  /\ name \in marked
            /\ MarkViewed(marked, name) = marked
            /\ name \notin UnmarkViewed(marked, name)

\* C17: mark_image_viewed and unmark_image_viewed leave every caption record
\* unchanged, caption upserts (generation, sidecar import, save_caption) leave
\* the viewed marks unchanged, marking is idempotent and unmarking after
\* marking leaves no mark.
ViewedIndependent ==
    /\ []MarkAlgebra
    /\ [][MarksAndCaptionsApart]_vars

\* C17 witness: a.jpg is marked viewed and b.jpg is not, while a.jpg has the
\* caption generation stored for it and b.jpg one that was saved.
MarkedBesideCaptions ==
    /\ viewed = {"a.jpg"}
    /\ writes["worker"] = 1
    /\ get_caption(captions, "a.jpg") = Describe("a.jpg")
    /\ get_caption(captions, "b.jpg") = <<"a", "dog">>

\* C15: every operation on the caption store has closed the connection it
\* opened when it is over: no thread holds an open store connection while no
\* store operation is executing (the store operations of the model are
\* atomic, so that is every state).
ConnectionsReleased == \A t \in Threads : conn[t] = "none"

\* C16: while a ModelClient call is in flight the processor holds no open
\* store connection, also none left by the write of an earlier attempt.
NoConnectionAcrossCall ==
    \A t \in Threads : pc[t] = "inflight" => conn[t] = "none"

\* C18: within one ingestion run the progress value never decreases from one
\* processed entry to the next, also when a directory is expanded.
ProgressMonotone ==
    [][(ingest_pc = "loop" /\ ingest_pc' = "loop" /\ files_processed >= 1) =>
           current_progress' >= current_progress]_vars

\* C19: the ingestion progress value is an integer in 0..100 in every state.
ProgressInRange == current_progress \in 0..100

\* C20: progress is 100, and a poll reports the run complete, only when the
\* queue has been drained.
CompleteOnlyWhenDrained ==
    (current_progress = 100 \/ get_import_progress.complete) => queue = <<>>

\* C21: the records of one ingestion run are delivered once: after a poll has
\* answered `complete` with the run's files, no later poll answers `complete`
\* again unless files were submitted in between.
DeliveredOnce == deliveries <= 1

\* a record of the processed files stands for the copy of the path p
RecordOf(rec, p) ==
    /\ IsImage(p)
    /\ rec.name = p.name
    /\ rec.name \in session_files
    /\ rec.hasCaption => /\ HasTxt(p)
                         /\ get_caption(captions, rec.name) =
                                Strip(FileText(TxtPath(p)))

\* C22: when an ingestion run is complete its records are, in order, one per
\* image file the run copied into the workspace and nothing else; a record has
\* hasCaption only if the image has a sidecar, whose trimmed text is then the
\* caption row of the record's name.
RecordsMatchCopies ==
    (ingest_pc = "idle" /\ submits > 0) =>
        /\ Len(processed_files) = Len(copied)
        /\ \A k \in 1..Len(copied) : RecordOf(processed_files[k], copied[k])

\* a loop iteration of the ingestion run in which the copy failed
CopyFailure == mishap' = "copy" /\ submits' = submits /\ queue' # queue

\* a loop iteration in which the image was copied and its sidecar could not be
\* read or stored
SidecarFailure == mishap' = "sidecar" /\ submits' = submits /\ copied' # copied

\* C23: a failure on one queued entry does not end the run: after a failed
\* copy the worker stays in its loop with the rest of the queue, the loop is
\* left only when the queue is empty or a stop was requested, and a sidecar
\* failure still appends the image's record, with hasCaption false.
FailureDoesNotAbort ==
    [][/\ CopyFailure => /\ ingest_pc' = "loop"
                         /\ queue' = Tail(queue)
       /\ SidecarFailure =>
              processed_files' =
                  Append(processed_files,
                         [name |-> Head(queue).name, hasCaption |-> FALSE])
       /\ (ingest_pc = "loop" /\ ingest_pc' # "loop") =>
              (queue = <<>> \/ _stop_event)]_vars

\* d.png could not be copied, and the album submitted after it was ingested
\* whole, f.JPG without the sidecar that could not be imported
FailuresSurvived ==
    /\ ingest_pc = "idle"
    /\ queue = <<>>
    /\ "d.png" \notin session_files
    /\ processed_files = <<[name |-> "e.gif", hasCaption |-> FALSE],
                           [name |-> "f.JPG", hasCaption |-> FALSE],
                           [name |-> "g.jpeg", hasCaption |-> FALSE]>>

\* how far the worker thread is from its end
StepsToIdle(at) ==
    IF at = "started" THEN 3 ELSE IF at = "loop" THEN 2
    ELSE IF at = "exit" THEN 1 ELSE 0

\* C24: once stop has set the event the worker copies nothing more (an
\* iteration is one step, so the entry being processed is over when stop acts)
\* and each of its steps takes it nearer to its end; with the event set no file
\* is copied into the workspace until a submit clears the event again.
StopHalts ==
    [][_stop_event =>
           /\ session_files' = session_files
           /\ copied' # copied => submits' # submits
           /\ processed_files' # processed_files => submits' # submits
           /\ ingest_pc # "idle" =>
                  StepsToIdle(ingest_pc') < StepsToIdle(ingest_pc)]_vars

\* the worker was stopped after it had copied a file, and has ended with
\* entries left on the queue
StoppedWithEntriesLeft ==
    /\ _stop_event
    /\ ingest_pc = "idle"
    /\ copied # <<>>
    /\ queue # <<>>

\* seq is in ascending order of its paths
Ascending(seq) ==
    \A j, k \in 1..Len(seq) : j < k => Before(seq[j], seq[k])

\* the path lies under the album
UnderAlbum(p) == p.dir = "/in/album"

\* an iteration of the worker on a directory: its images are appended to the
\* queue in ascending order of their paths
SortedExpansion ==
    (queue' # queue /\ submits' = submits /\ IsDir(Head(queue))) =>
        LET added == SubSeq(queue', Len(queue), Len(queue'))
        IN  /\ Ascending(added)
            /\ Len(added) = Cardinality({p \in SourceFiles :
                                            UnderAlbum(p) /\ IsImage(p)})
            /\ \A k \in 1..Len(added) :
                   UnderAlbum(added[k]) /\ IsImage(added[k])

\* the queue is first in, first out: the worker takes the head and leaves the
\* rest in place, a submit appends, and what is copied is the head
FirstInFirstOut ==
    /\ (queue' # queue /\ submits' = submits) =>
           SubSeq(queue', 1, Len(queue) - 1) = Tail(queue)
    /\ submits' # submits => SubSeq(queue', 1, Len(queue)) = queue
    /\ (copied' # copied /\ submits' = submits) =>
           /\ copied' = Append(copied, Head(queue))
           /\ processed_files'[Len(processed_files')].name = Head(queue).name

\* C25: the images found under a submitted directory are put on the queue in
\* ascending order of their paths, the queue is first in, first out, and so
\* the records that come from one submitted directory are in ascending order
\* of their source paths.
DirectoryInOrder ==
    /\ [](submits = 1 =>
              /\ Ascending(SelectSeq(copied, UnderAlbum))
              /\ Len(processed_files) = Len(copied)
              /\ \A k \in 1..Len(copied) :
                     processed_files[k].name = copied[k].name)
    /\ [][SortedExpansion /\ FirstInFirstOut]_vars

\* the album, which os.walk lists as g.jpeg, e.gif, f.JPG, has been ingested
AlbumIngested ==
    /\ submits = 1
    /\ processed_files = <<[name |-> "d.png", hasCaption |-> FALSE],
                           [name |-> "e.gif", hasCaption |-> FALSE],
                           [name |-> "f.JPG", hasCaption |-> TRUE],
                           [name |-> "g.jpeg", hasCaption |-> FALSE]>>

\* C26: one invocation never goes from the end of a ModelClient call straight
\* to the next call: the inter-retry sleep lies between any two of its calls.
DelayBetweenCalls ==
    [][\A t \in Threads : pc[t] = "inflight" => pc'[t] # "call"]_vars

\* C27: when every ModelClient call of an invocation ends with a payload that
\* cannot be parsed (the SDK raises on it), each call consumes one of the 3
\* attempts, and after the third the invocation has returned the failure
\* 'Invalid response from model'.
MalformedExhausts ==
    \A t \in Threads :
        (only_raise[t] /\ calls[t] >= 1 /\ pc[t] # "inflight") =>
            /\ retry_count[t] = calls[t]
            /\ calls[t] = max_retries =>
                   /\ pc[t] = "returned"
                   /\ outcome[t].status = "error"
                   /\ outcome[t].error = "Invalid response from model"

\* C28: for captionType "Descriptive" and captionLength "any" with no extra
\* options the built prompt is exactly "Write a descriptive caption for this
\* image in a formal tone.", without a length clause.
AnyLengthUnconstrained ==
    (/\ final_prompt # <<>>
     /\ prompts.captionType = "Descriptive"
     /\ prompts.captionLength = "any"
     /\ prompts.extraOptions = <<>>) =>
        final_prompt = <<"Write", "a", "descriptive", "caption", "for", "this",
                         "image", "in", "a", "formal", "tone", ".">>

\* the all-digit caption lengths, written out
WordCounts == {"42", "7"}

\* the prompt has the clause "within N words" for the caption length N
HasWithin(prompt, n) == Contains(prompt, <<"within", n, "words">>)

ExpectedOption(option, name) ==
    [k \in 1..Len(option) |->
        IF name # "" /\ option[k] = "{name}" THEN name ELSE option[k]]

RECURSIVE BulletStart(_, _)
\* where the k-th bullet begins in what follows the base sentence: after the
\* header, and after the earlier bullets with their dashes and line ends
BulletStart(options, k) ==
    IF k = 1 THEN Len(RequirementsHeader) + 1
    ELSE BulletStart(options, k - 1) + Len(options[k - 1]) + 2

\* C30: with extra options the prompt ends with the header "Additional
\* requirements:" and one bullet per option in the given order, {name}
\* replaced by customName exactly when customName is not empty and the option
\* has the token; with no extra options nothing follows the base sentence.
OptionsAppended ==
    final_prompt # <<>> =>
        LET base == BasePrompt(prompts)
            options == prompts.extraOptions
            tail == SubSeq(final_prompt, Len(base) + 1, Len(final_prompt))
            n == Len(options)
        IN  /\ SubSeq(final_prompt, 1, Len(base)) = base
            /\ IF n = 0 THEN tail = <<>>
               ELSE /\ SubSeq(tail, 1, Len(RequirementsHeader)) = RequirementsHeader
                    /\ Len(tail) = BulletStart(options, n) + Len(options[n])
                    /\ \A k \in 1..n :
                         LET at == BulletStart(options, k)
                         IN  /\ tail[at] = "-"
                             /\ SubSeq(tail, at + 1, at + Len(options[k])) =
                                    ExpectedOption(options[k], prompts.customName)
                             /\ k < n => tail[at + Len(options[k]) + 1] = "\n"

\* a prompt with two requirements: the first without the token, the second
\* with both its tokens replaced by the custom name
TwoBulletsNamed ==
    /\ prompts.customName = "Ada"
    /\ Contains(final_prompt,
                RequirementsHeader
                    \o <<"-", "No", "watermarks", "\n",
                         "-", "Call", "Ada", "Ada", "twice">>)

\* C31: the classifier answers `rejection` exactly for the empty caption and
\* for the texts that contain one of the nine phrases in any spelling of
\* upper and lower case; so for "" and for "I'm sorry, I cannot describe this
\* image.", and not for "A cat sits on a red chair.".
RejectionExactly ==
    verdict # "none" =>
        /\ verdict = "rejection" <=> probe \in {<<>>, SorryCannot} \cup WithIndicator
        /\ probe = CatOnChair => verdict = "caption"

\* the sentence with "sorry" and "cannot" in it has been classified, its
\* capital I lower-cased on the way
SorryCannotRejected ==
    /\ probe = SorryCannot
    /\ verdict = "rejection"

\* C32: a caption the engine has stored under an identifier, and a caption it
\* reports as success for an identifier, is the model's description of the
\* image file of that identifier.
CaptionOfOwnImage ==
    /\ \A row \in captions : row.caption = Describe(row.image_name)
    /\ \A t \in Threads :
           outcome[t].status = "success" =>
               outcome[t].caption = Describe(outcome[t].image_name)

\* C33: no entry is left on the queue with no worker to take it: when the
\* worker thread has ended without a stop having been requested, the queue is
\* empty.
NothingStranded ==
    (ingest_pc = "idle" /\ ~_stop_event) => queue = <<>>

\* C34: a submit made while the worker is running loses no result: the
\* records the worker has appended so far are still in the sequence after it.
SubmitKeepsRecords ==
    [][(submits' # submits /\ ingest_pc # "idle") =>
           /\ Len(processed_files') >= Len(processed_files)
           /\ \A k \in 1..Len(processed_files) :
                  processed_files'[k] = processed_files[k]]_vars

\* a text the engine may keep: the classifier takes it for a caption, and it
\* is neither the empty answer nor the refusal the model can give
Kept(caption) ==
    /\ ~_is_rejection_response(caption)
    /\ caption \notin {<<>>, Refusal}

\* C35: every caption the engine has written to the store, and every caption
\* of a success outcome, is one the classifier does not take for a rejection.
NoRejectionKept ==
    /\ \A row \in captions : Kept(row.caption)
    /\ last_write.made => Kept(last_write.caption)
    /\ \A t \in Threads : outcome[t].status = "success" => Kept(outcome[t].caption)

\* the worker has stored and reported a caption on its third call, the
\* answers to the first two not having been kept
KeptOnThirdCall ==
    /\ calls["worker"] = 3
    /\ writes["worker"] = 1
    /\ outcome["worker"].status = "success"
    /\ retry_count["worker"] = 0
    /\ ~only_raise["worker"]
    /\ captions # {}

\* C36: within one run of the worker, two different source images are never
\* copied to the same workspace file name: a copy does not overwrite the copy
\* of another source image, also when the two have equal base names in
\* different sub-directories.
DistinctCopies ==
    \A j, k \in 1..Len(copied) :
        copied[j] # copied[k] => copied[j].name # copied[k].name

\* a pass of the single-image engine whose store write raised: the only step
\* that adds to retry_count
WriteRaised == retry_count'["worker"] = retry_count["worker"] + 1

\* C37: a pass whose store write raises stores nothing and never returns
\* success; it is counted, below the ceiling of 3 the engine sleeps and the
\* next thing it does is call the model again, and at the ceiling it returns
\* 'Failed after 3 attempts' with the store's error.
RaisingWriteCounted ==
    /\ [](retry_count["worker"] <= max_retries)
    /\ [][WriteRaised =>
            /\ captions' = captions
            /\ writes'["worker"] = writes["worker"]
            /\ outcome'["worker"].status # "success"
            /\ last_error'["worker"] = "sqlite3 error"
            /\ IF retry_count'["worker"] < max_retries
               THEN /\ pc'["worker"] = "sleep"
                    /\ outcome'["worker"] = NoOutcome
               ELSE /\ pc'["worker"] = "returned"
                    /\ outcome'["worker"] =
                           StatusError("Failed after 3 attempts",
                                       "sqlite3 error", image_name)]_vars
    /\ [][pc["worker"] = "sleep" /\ pc'["worker"] # "sleep" =>
              pc'["worker"] = "call"]_vars

\* the write has failed three times and the engine has given up
WriteFailedThrice ==
    /\ retry_count["worker"] = max_retries
    /\ pc["worker"] = "returned"
    /\ outcome["worker"].error = "Failed after 3 attempts"
    /\ outcome["worker"].detail = "sqlite3 error"
    /\ calls["worker"] >= 3

\* C38: run against the same script for the same identifier, session,
\* settings and model type, _generate_caption and _generate_caption_for_batch
\* have returned or not alike, return the same outcome, make the same number
\* of ModelClient calls and commit the same rows.
EnginesAgree ==
    (single_result.ran /\ batch_result.ran) => single_result = batch_result

\* both engines have run against a script of three accepted captions whose
\* writes raise, and have given up
BothGaveUp ==
    /\ single_result.ran
    /\ batch_result.ran
    /\ Len(script) = 3
    /\ batch_result.done
    /\ batch_result.calls = 3
    /\ batch_result.writes = <<>>
    /\ batch_result.outcome.error = "Failed after 3 attempts"
    /\ batch_result.outcome.detail = "sqlite3 error"

\* C39: when a generation completes, its result is delivered to the front end
\* as exactly one handleCaptionResult event, however many generate_caption
\* calls were made before.
HandledOnce ==
    [][(pc["worker"] = "returned" /\ pc'["worker"] = "idle") => events' = 1]_vars

====
